---- MODULE Spec2Model ----
(***************************************************************************)
(* PythonTestCase (test_collections/sdk_tests/support/python_testing/      *)
(* models/test_case.py): one run of execute, the event handlers that the   *)
(* drain loop dispatches to, the step list, and the Event Channel shared   *)
(* with the external runner process.                                       *)
(*                                                                         *)
(* The bridge (execute) and the runner are two processes.  Every remote    *)
(* call of the bridge on the channel (update_test, is_finished) is one     *)
(* atomic step; the runner's publish and mark-finished calls interleave    *)
(* freely with them.                                                       *)
(***************************************************************************)
EXTENDS Integers, Sequences, FiniteSets, TLC

\* Bounds of the model: the steps of a python test, those of the test a run
\* of execute is followed on, and the events and empty mappings a runner
\* publishes.
MaxSteps == 3
MaxRunSteps == 1
MaxEvents == 2

\* Step labels a parsed python test may carry.
Labels == {"A"}

\* Step status (spec.md section 3, Step).
Pending == "Pending"
Completed == "Completed"
NotApplicable == "NotApplicable"
Failed == "Failed"

\* The methods defined as event handlers on PythonTestCase (lines 53-85).
Vocabulary ==
    {"start", "stop", "test_start", "test_stop", "step_skipped",
     "step_start", "step_success", "step_failure", "step_unknown"}

\* The names that getattr resolves to a method of the instance and that are
\* no handlers: next_step, inherited from TestCase; create_test_steps;
\* __init__; __handle_update under its mangled name; and setup, which
\* stands for the async methods setup, cleanup and execute: their call
\* makes a coroutine nobody awaits and changes nothing of the instance.
\* (The class and static methods and __call_function_from_name work on their
\* arguments, not on the instance; they are not among the names drawn.)
OtherMethods ==
    {"next_step", "create_test_steps", "__init__", "_PythonTestCase__handle_update",
     "setup"}

\* The names that getattr resolves to a method of the instance.
Methods == Vocabulary \cup OtherMethods

\* Names the runner side may put on the channel: the methods; data
\* attributes of the instance (test_steps, a non-empty list, which stands
\* for the attributes that are truthy objects, as chip_tool and python_test;
\* test_stop_called, a bool; __runned, an int, under its mangled name); and
\* a name that is no attribute at all.
EventNames ==
    Methods \cup {"test_steps", "test_stop_called", "_PythonTestCase__runned", "bogus"}

\* The kwargs published with a name, by what func(**kwargs) of line 189
\* does with them.  "fits": they bind to the signature of the method, the
\* body runs and returns.  "misfit": they do not bind, the call raises
\* TypeError and the body does not run.  "no_mapping", for __handle_update:
\* they bind and the argument update is no mapping (None, 5), the body runs
\* and update.items() raises AttributeError (line 180).  For a name that is
\* no method nothing is called and the kwargs are not looked at.
Kwargs(e) ==
    IF e = "_PythonTestCase__handle_update" THEN {"fits", "misfit", "no_mapping"}
    ELSE IF e \in Methods THEN {"fits", "misfit"}
    ELSE {"fits"}

\* An update is a mapping {name: kwargs, ...}.  It is written by the entry
\* the loop of line 180 is at: its name, the kind of its kwargs, the number
\* of the event it carries, and the number of entries that follow it in the
\* mapping; the names of those are drawn when the loop reaches them.  The
\* entries of a mapping handed to __handle_update by an entry named
\* _PythonTestCase__handle_update are called before the call of that entry
\* returns: they are written as the entries that follow it.

\* update_test() returns None when the queue is empty.
None == [name |-> "None", id |-> 0, kwargs |-> "fits", more |-> 0]

\* The mapping without an entry, {}.
Empty == [name |-> "{}", id |-> 0, kwargs |-> "fits", more |-> 0]

\* No exception in flight.
NoError == "none"

VARIABLES
    python_test_steps,        \* python_test.steps: the labels from the metadata
    test_steps,               \* self.test_steps
    current_test_step_index,  \* the cursor of the step list (0-based)
    test_stop_called,         \* self.test_stop_called
    runned,                   \* self.__runned
    manager,                  \* BaseManager: "initial", "started", "shutdown"
    launch,                   \* outcome of send_command: "none", "ok", "raised", "nonzero"
    results,                  \* the channel's FIFO queue of published events
    finished,                 \* the channel's finished flag
    npublished,               \* number of events (entries of mappings) the runner has published
    nempty,                   \* number of empty mappings the runner has published
    pc,                       \* position of execute
    update,                   \* the local variable update of the drain loop
    raised,                   \* exception in flight inside the try block
    error,                    \* exception that left execute
    shutdown_calls,           \* completed manager.shutdown() calls
    dispatched,               \* numbers of the events __call_function_from_name was called for, in order
    last_call,                \* the method whose body dispatch entered last
    polled,                   \* update_test() or is_finished() has been called
    unyielded_empty,          \* polls in a row that gave no entry (None or {}), no suspension between (capped at 2)
    published                 \* names published so far while a prefix of a scenario

\* State of the other operations modelled below: direct calls of next_step,
\* and _parse_all_sdk_python_tests (sdk_python_tests.py).
VARIABLES
    advances,                 \* number of direct next_step() calls made
    python_test_files,        \* the files to parse, each with the parser's outcome
    file_index,               \* number of files the loop has gone through
    suite_test_cases,         \* test cases of suites[SuiteType.AUTOMATED]
    loader_pc,                \* "idle", "loop", "returned", "aborted", "suites_added", "done"
    test_name,                \* test.name given to class_factory, a sequence of characters
    token,                    \* the canonical test id written into test_name, or <<>>
    metadata,                 \* metadata of the class made: public_id and title
    chip_tool_test_identifier,\* chip_tool_test_identifier of the class made: its class name
    factory_pc                \* "idle", "called", "made"

\* sdk_python_test_collection / custom_python_test_collection
\* (sdk_python_tests.py), the callers of _parse_all_sdk_python_tests.
VARIABLES
    collection_function,      \* the function called: "sdk" or "custom" ("none": neither)
    test_ids,                 \* per file, the identifier of its test: its rank in the sort order
    test_suites,              \* collection.test_suites
    collection_result         \* "none" (not returned), "collection", "None"

\* Two calls of execute in one event loop, on one instance or on an
\* instance each, and the address ("0.0.0.0", 50000) both managers are given.
VARIABLES
    runs,                     \* per run: the state of execute, of its channel and of its runner
    instances,                \* the instances execute is called on: steps, cursor, flag, counter
    address_owner,            \* the run whose service is bound to the address, or 0
    running                   \* the run whose coroutine holds the event loop, or 0

\* Observation of the handlers stop and test_stop.
VARIABLES
    completion_calls          \* mark_as_completed() calls they made on the current step (capped at 2)

\* The step lists that are no longer self.test_steps.
VARIABLES
    replaced                  \* the lists create_test_steps has replaced, oldest first, as they were left

loadervars == <<python_test_files, file_index, suite_test_cases, loader_pc>>
factoryvars == <<test_name, token, metadata, chip_tool_test_identifier, factory_pc>>
collectionvars == <<collection_function, test_ids, test_suites, collection_result>>
tworunvars == <<runs, instances, address_owner, running>>
extvars == <<advances, loadervars, factoryvars, tworunvars, collectionvars>>

stepvars == <<test_steps, current_test_step_index, test_stop_called, runned,
              completion_calls, replaced>>
chanvars == <<results, finished, npublished, nempty, published>>
vars == <<python_test_steps, test_steps, current_test_step_index, test_stop_called,
          runned, manager, launch, results, finished, npublished, nempty, pc, update,
          raised, error, shutdown_calls, dispatched, last_call, polled,
          unyielded_empty, published, extvars, completion_calls, replaced>>

----------------------------------------------------------------------------
\* Step list

\* TestStep(label): a new step is Pending.  made tells the object from the
\* steps of the same label made before it: it is the number of lists
\* create_test_steps had built for the instance when it built this one.
TestStep(label, made) == [label |-> label, status |-> Pending, made |-> made]

\* TestStep.mark_as_completed: Completed if it was Pending.
mark_as_completed(step) ==
    IF step.status = Pending THEN [step EXCEPT !.status = Completed] ELSE step

\* TestStep.mark_as_not_applicable.
mark_as_not_applicable(step) == [step EXCEPT !.status = NotApplicable]

\* create_test_steps appending the steps in front of the list built so far.
create_test_steps_prepending(steps, made) ==
    [i \in 1..Len(steps) |-> TestStep(steps[Len(steps) + 1 - i], made)]
        \o <<TestStep("Start Python test", made)>>

\* create_test_steps: the synthetic start step, then one step per metadata step.
create_test_steps(steps, made) ==
    <<TestStep("Start Python test", made)>>
        \o [i \in 1..Len(steps) |-> TestStep(steps[i], made)]

\* self.current_test_step
current_test_step == test_steps[current_test_step_index + 1]

\* TestCase.next_step (advance): the current step is marked completed if it
\* was Pending, then the cursor moves to the next step, if any.
next_step_steps(ts, i) == [ts EXCEPT ![i + 1] = mark_as_completed(@)]
next_step_index(ts, i) == IF i + 1 >= Len(ts) THEN i ELSE i + 1

----------------------------------------------------------------------------
\* Event scenarios whose publication is tracked by name (spec.md section 8,
\* "Event ordering").  The spec's testStart(name) is step_start(name) and its
\* runStart(file, name, count) is test_start(filename, name, count).
ScenarioStepStart == <<"step_start", "step_success", "step_success", "test_stop">>
ScenarioTestStart == <<"test_start", "step_success", "step_success", "test_stop">>
Scenarios == {ScenarioStepStart, ScenarioTestStart}
Untracked == <<"*">>

IsPrefix(p, s) == Len(p) <= Len(s) /\ \A i \in 1..Len(p) : p[i] = s[i]

Track(h, e) ==
    IF h # Untracked /\ \E s \in Scenarios : IsPrefix(Append(h, e), s)
    THEN Append(h, e)
    ELSE Untracked

----------------------------------------------------------------------------
\* State after construction of the test case instance (__init__, and the
\* step list built by create_test_steps), before execute is called.
Constructed ==
    /\ test_steps = create_test_steps(python_test_steps, 0)
    /\ current_test_step_index = 0
    /\ test_stop_called = FALSE
    /\ runned = 0
    /\ manager = "initial"
    /\ launch = "none"
    /\ results = <<>>
    /\ finished = FALSE
    /\ npublished = 0
    /\ nempty = 0
    /\ pc = "start"
    /\ update = None
    /\ raised = NoError
    /\ error = NoError
    /\ shutdown_calls = 0
    /\ dispatched = <<>>
    /\ last_call = "none"
    /\ polled = FALSE
    /\ unyielded_empty = 0
    /\ published = <<>>
    /\ advances = 0
    /\ completion_calls = 0
    /\ replaced = <<>>

\* The metadata step lists over a set of labels, up to MaxSteps steps.
StepLists(labels) == UNION {[1..n -> labels] : n \in 0..MaxSteps}

\* The metadata step lists of the test that execute runs.
RunStepLists == UNION {[1..n -> Labels] : n \in 0..MaxRunSteps}

\* No file is being loaded.
LoaderIdle ==
    /\ python_test_files = <<>>
    /\ file_index = 0
    /\ suite_test_cases = <<>>
    /\ loader_pc = "idle"

\* class_factory is not being called.
FactoryIdle ==
    /\ test_name = <<>>
    /\ token = <<>>
    /\ metadata = [public_id |-> <<>>, title |-> <<>>]
    /\ chip_tool_test_identifier = <<>>
    /\ factory_pc = "idle"

\* No collection is being declared.
CollectionIdle ==
    /\ collection_function = "none"
    /\ test_ids = <<>>
    /\ test_suites = <<>>
    /\ collection_result = "none"

\* The two runs sharing the address.
Runs == {1, 2}

\* A run of execute on instance `on`, at position `at`, nothing done yet.
NewRun(at, on) ==
    [pc |-> at, instance |-> on, manager |-> "initial", launch |-> "none",
     results |-> <<>>, finished |-> FALSE, update |-> None, calls |-> 0,
     raised |-> NoError, error |-> NoError, received |-> <<>>, connected |-> 0,
     npublished |-> 0, marked |-> FALSE]

\* No two runs are under way.
TwoRunsIdle ==
    /\ runs = [r \in Runs |-> NewRun("idle", 0)]
    /\ instances = <<>>
    /\ address_owner = 0
    /\ running = 0

\* The operations outside the instance are not running.
Elsewhere == LoaderIdle /\ FactoryIdle /\ TwoRunsIdle /\ CollectionIdle

Init ==
    /\ python_test_steps \in RunStepLists
    /\ Constructed
    /\ Elsewhere

\* An instance constructed for a test that has a step more than the
\* scenarios move the cursor over.
InitScenario ==
    /\ python_test_steps \in UNION {[1..n -> Labels] : n \in 0..(MaxSteps + 1)}
    /\ Constructed
    /\ Elsewhere

\* An instance constructed for a test of up to MaxSteps steps.
InitInstance ==
    /\ python_test_steps \in StepLists(Labels)
    /\ Constructed
    /\ Elsewhere

----------------------------------------------------------------------------
\* The runner process (publisher side of the Event Channel)

\* publish(name, parameters): the update is appended to the queue, a mapping
\* whose first entry is {e: kwargs}, with `more` entries after it.
Publish(e, kwargs, more) ==
    /\ launch = "ok" /\ manager = "started"
    /\ ~finished
    /\ results' = Append(results, [name |-> e, id |-> npublished + 1, kwargs |-> kwargs,
                                   more |-> more])
    /\ npublished' = npublished + 1 + more
    /\ published' = Track(published, e)
    /\ UNCHANGED <<extvars, python_test_steps, stepvars, manager, launch, finished, nempty,
                   pc, update, raised, error, shutdown_calls, dispatched, last_call,
                   polled, unyielded_empty>>

\* markFinished(): the channel's finished flag is set.
MarkFinished ==
    /\ launch = "ok" /\ manager = "started"
    /\ ~finished
    /\ finished' = TRUE
    /\ UNCHANGED <<extvars, python_test_steps, stepvars, manager, launch, results, npublished,
                   nempty, published, pc, update, raised, error, shutdown_calls,
                   dispatched, last_call, polled, unyielded_empty>>

----------------------------------------------------------------------------
\* execute

\* manager.start() whose failure is not raised: execute goes on to the launch.
ManagerStart_unchecked ==
    /\ pc = "start"
    /\ \E ok \in BOOLEAN :
         /\ manager' = IF ok THEN "started" ELSE manager
         /\ pc' = "launch"
         /\ raised' = raised
    /\ UNCHANGED <<extvars, python_test_steps, stepvars, launch, chanvars, update, error,
                   shutdown_calls, dispatched, last_call, polled, unyielded_empty>>

\* manager.start() (line 144).  BaseManager.start either brings the service up
\* or raises (the endpoint cannot be bound, the server process dies).
ManagerStart ==
    /\ pc = "start"
    /\ \E ok \in BOOLEAN :
         IF ok
         THEN manager' = "started" /\ pc' = "launch" /\ raised' = raised
         ELSE manager' = manager /\ pc' = "finally" /\ raised' = "StartError"
    /\ UNCHANGED <<extvars, python_test_steps, stepvars, launch, chanvars, update, error,
                   shutdown_calls, dispatched, last_call, polled, unyielded_empty>>

\* self.chip_tool.send_command(...).output (lines 161-166).  The call raises,
\* or returns; what it returns is not looked at, so an outcome that reports
\* the runner as not started ("nonzero") continues like a successful one.
SendCommand ==
    /\ pc = "launch"
    /\ \E outcome \in {"ok", "raised", "nonzero"} :
         /\ launch' = outcome
         /\ IF outcome = "raised"
            THEN pc' = "finally" /\ raised' = "LaunchError"
            ELSE pc' = "poll" /\ raised' = raised
    /\ UNCHANGED <<extvars, python_test_steps, stepvars, manager, chanvars, update, error,
                   shutdown_calls, dispatched, last_call, polled, unyielded_empty>>

\* update := test_runner_hooks.update_test() (line 168): the head of the queue
\* is popped, or None is returned.  A popped update makes the loop condition
\* true; one with an entry is handed to __handle_update (line 174), the
\* empty mapping is falsy and `if not update: continue` (lines 171-172) goes
\* back to the loop condition, as after a poll that found nothing, without
\* asking is_finished().
UpdateTest ==
    /\ pc = "poll"
    /\ polled' = TRUE
    /\ IF results # <<>>
       THEN /\ update' = Head(results)
            /\ results' = Tail(results)
            /\ pc' = IF Head(results) = Empty THEN "poll" ELSE "handle"
            /\ unyielded_empty' =
                   IF Head(results) # Empty THEN 0
                   ELSE IF unyielded_empty < 2 THEN unyielded_empty + 1 ELSE 2
       ELSE /\ update' = None
            /\ results' = results
            /\ pc' = "is_finished"
            /\ unyielded_empty' = IF unyielded_empty < 2 THEN unyielded_empty + 1 ELSE 2
    /\ UNCHANGED <<extvars, python_test_steps, stepvars, manager, launch, finished, npublished,
                   nempty, published, raised, error, shutdown_calls, dispatched, last_call>>

\* not test_runner_hooks.is_finished() (line 169), evaluated after an empty
\* poll: the loop ends when finished, otherwise `if not update: continue`
\* (lines 171-172) goes straight back to the loop condition.
IsFinished ==
    /\ pc = "is_finished"
    /\ polled' = TRUE
    /\ pc' = IF finished THEN "finally" ELSE "poll"
    /\ UNCHANGED <<extvars, python_test_steps, stepvars, manager, launch, chanvars, update, raised,
                   error, shutdown_calls, dispatched, last_call, unyielded_empty>>

\* await sleep(0.001) (line 175): the only suspension point, after a dispatch.
Sleep ==
    /\ pc = "sleep"
    /\ pc' = "poll"
    /\ unyielded_empty' = 0
    /\ UNCHANGED <<extvars, python_test_steps, stepvars, manager, launch, chanvars, update, raised,
                   error, shutdown_calls, dispatched, last_call, polled>>

\* finally: manager.shutdown() (lines 176-177).  BaseManager gets its shutdown
\* attribute in start(), once the service is up; on a manager whose start()
\* raised, manager.shutdown raises AttributeError, which replaces the
\* exception in flight.
Finally ==
    /\ pc = "finally"
    /\ pc' = "done"
    /\ IF manager = "started"
       THEN /\ manager' = "shutdown"
            /\ shutdown_calls' = shutdown_calls + 1
            /\ error' = raised
       ELSE /\ manager' = manager
            /\ shutdown_calls' = shutdown_calls
            /\ error' = "AttributeError"
    /\ UNCHANGED <<extvars, python_test_steps, stepvars, launch, chanvars, update, raised,
                   dispatched, last_call, polled, unyielded_empty>>

----------------------------------------------------------------------------
\* __handle_update / __call_function_from_name (lines 179-189) and the
\* handlers.  At pc = "handle" the loop of line 180 is at the entry written
\* in update.

\* The loop of line 180 is at an entry, of name `name` and kwargs `kwargs`.
At(name, kwargs) == pc = "handle" /\ update.name = name /\ update.kwargs = kwargs

\* getattr(obj, func_name, None) is asked for `name`; if it gives a
\* callable, func(**kwargs) enters its body and the body goes through.
Handling(name) == At(name, "fits")

\* func(**kwargs) returned.  The loop of line 180 goes on with the next
\* entry of the mapping, of any name; after the last one __handle_update
\* returns to the loop body, before the sleep, and the local update is not
\* read again before the next poll overwrites it.
Returns(name) ==
    /\ last_call' = name
    /\ dispatched' = Append(dispatched, update.id)
    /\ IF update.more > 0
       THEN /\ pc' = "handle"
            /\ \E e \in EventNames : \E kwargs \in Kwargs(e) :
                 update' = [name |-> e, id |-> update.id + 1, kwargs |-> kwargs,
                            more |-> update.more - 1]
       ELSE /\ pc' = "sleep"
            /\ update' = None
    /\ UNCHANGED <<extvars, python_test_steps, manager, launch, chanvars, raised, error,
                   shutdown_calls, polled, unyielded_empty>>

\* The calls counted are those on the step under the cursor.
CallsAfterMoveTo(index) == IF index # current_test_step_index THEN 0 ELSE completion_calls

\* self.next_step()
NextStep ==
    /\ test_steps' = next_step_steps(test_steps, current_test_step_index)
    /\ current_test_step_index' = next_step_index(test_steps, current_test_step_index)
    /\ completion_calls' = CallsAfterMoveTo(current_test_step_index')

\* self.current_test_step.mark_as_completed()
MarkCurrentCompleted ==
    /\ test_steps' = [test_steps EXCEPT ![current_test_step_index + 1] = mark_as_completed(@)]
    /\ completion_calls' = IF completion_calls < 2 THEN completion_calls + 1 ELSE 2

\* def start(self, count): pass
start ==
    /\ Handling("start")
    /\ UNCHANGED stepvars
    /\ Returns("start")

\* def stop(self, duration)
stop ==
    /\ Handling("stop")
    /\ IF ~test_stop_called
       THEN MarkCurrentCompleted
       ELSE UNCHANGED <<test_steps, completion_calls>>
    /\ UNCHANGED <<replaced, current_test_step_index, test_stop_called, runned>>
    /\ Returns("stop")

\* def test_start(self, filename, name, count)
test_start ==
    /\ Handling("test_start")
    /\ NextStep
    /\ UNCHANGED <<replaced, test_stop_called, runned>>
    /\ Returns("test_start")

\* def test_stop(self, exception, duration)
test_stop ==
    /\ Handling("test_stop")
    /\ test_stop_called' = TRUE
    /\ MarkCurrentCompleted
    /\ UNCHANGED <<replaced, current_test_step_index, runned>>
    /\ Returns("test_stop")

\* step_skipped with the current step marked completed, not not-applicable.
step_skipped_completed ==
    /\ Handling("step_skipped")
    /\ LET marked == [test_steps EXCEPT
                         ![current_test_step_index + 1] = mark_as_completed(@)]
       IN /\ test_steps' = next_step_steps(marked, current_test_step_index)
          /\ current_test_step_index' = next_step_index(marked, current_test_step_index)
          /\ completion_calls' = CallsAfterMoveTo(current_test_step_index')
    /\ UNCHANGED <<replaced, test_stop_called, runned>>
    /\ Returns("step_skipped")

\* def step_skipped(self, name, expression)
step_skipped ==
    /\ Handling("step_skipped")
    /\ LET marked == [test_steps EXCEPT
                         ![current_test_step_index + 1] = mark_as_not_applicable(@)]
       IN /\ test_steps' = next_step_steps(marked, current_test_step_index)
          /\ current_test_step_index' = next_step_index(marked, current_test_step_index)
          /\ completion_calls' = CallsAfterMoveTo(current_test_step_index')
    /\ UNCHANGED <<replaced, test_stop_called, runned>>
    /\ Returns("step_skipped")

\* def step_start(self, name): pass
step_start ==
    /\ Handling("step_start")
    /\ UNCHANGED stepvars
    /\ Returns("step_start")

\* def step_success(self, logger, logs, duration, request)
step_success ==
    /\ Handling("step_success")
    /\ NextStep
    /\ UNCHANGED <<replaced, test_stop_called, runned>>
    /\ Returns("step_success")

\* step_failure marking the current step Failed and staying on it.
step_failure_blocks ==
    /\ Handling("step_failure")
    /\ test_steps' = [test_steps EXCEPT ![current_test_step_index + 1].status = Failed]
    /\ UNCHANGED <<replaced, current_test_step_index, test_stop_called, runned, completion_calls>>
    /\ Returns("step_failure")

\* def step_failure(self, logger, logs, duration, request, received)
step_failure ==
    /\ Handling("step_failure")
    /\ NextStep
    /\ UNCHANGED <<replaced, test_stop_called, runned>>
    /\ Returns("step_failure")

\* step_unknown counting and advancing the cursor.
step_unknown_advances ==
    /\ Handling("step_unknown")
    /\ runned' = runned + 1
    /\ NextStep
    /\ UNCHANGED <<replaced, test_stop_called>>
    /\ Returns("step_unknown")

\* def step_unknown(self)
step_unknown ==
    /\ Handling("step_unknown")
    /\ runned' = runned + 1
    /\ UNCHANGED <<replaced, test_steps, current_test_step_index, test_stop_called, completion_calls>>
    /\ Returns("step_unknown")

\* getattr finds TestCase.next_step for the name "next_step": it is callable,
\* so it is called like a handler.
CallNextStep ==
    /\ Handling("next_step")
    /\ NextStep
    /\ UNCHANGED <<replaced, test_stop_called, runned>>
    /\ Returns("next_step")

\* getattr finds create_test_steps (lines 191-195): self.test_steps is
\* replaced by a new list of new steps; the cursor is not touched.
CallCreateTestSteps ==
    /\ Handling("create_test_steps")
    /\ test_steps' = create_test_steps(python_test_steps, test_steps[1].made + 1)
    /\ replaced' = Append(replaced, test_steps)
    /\ completion_calls' = 0
    /\ UNCHANGED <<current_test_step_index, test_stop_called, runned>>
    /\ Returns("create_test_steps")

\* getattr finds __init__ (lines 47-51), which runs again on the instance:
\* TestCase.__init__ builds the step list anew with the cursor on its first
\* step, as on construction; the counter and the flag are set back.
CallInit ==
    /\ Handling("__init__")
    /\ test_steps' = create_test_steps(python_test_steps, test_steps[1].made + 1)
    /\ replaced' = Append(replaced, test_steps)
    /\ current_test_step_index' = 0
    /\ runned' = 0
    /\ test_stop_called' = FALSE
    /\ completion_calls' = 0
    /\ Returns("__init__")

\* getattr finds __handle_update under the name _PythonTestCase__handle_update
\* (lines 179-181): it goes through the mapping given as its argument, whose
\* entries are the ones that follow this one.
CallHandleUpdate ==
    /\ Handling("_PythonTestCase__handle_update")
    /\ UNCHANGED stepvars
    /\ Returns("_PythonTestCase__handle_update")

\* __handle_update is found and called with an argument that is no mapping:
\* its body runs and update.items() (line 180) raises AttributeError, which
\* leaves the loops of lines 180 and 168; nothing of the instance changed.
CallHandleUpdateRaises ==
    /\ At("_PythonTestCase__handle_update", "no_mapping")
    /\ last_call' = "_PythonTestCase__handle_update"
    /\ pc' = "finally"
    /\ raised' = "AttributeError"
    /\ dispatched' = Append(dispatched, update.id)
    /\ update' = None
    /\ UNCHANGED <<extvars, python_test_steps, stepvars, manager, launch, chanvars, error,
                   shutdown_calls, polled, unyielded_empty>>

\* getattr finds an async method (setup, lines 132-133): the call makes a
\* coroutine object that nobody awaits; its body never runs.  So does, for
\* the instance, the call of any method that does not write to it.
CallSetup ==
    /\ Handling("setup")
    /\ UNCHANGED stepvars
    /\ Returns("setup")

\* The exception raised by __call_function_from_name leaves the loops of
\* lines 180 and 168; the entries after this one are not called.
Raises(exc) ==
    /\ pc' = "finally"
    /\ raised' = exc
    /\ dispatched' = Append(dispatched, update.id)
    /\ update' = None
    /\ UNCHANGED <<extvars, python_test_steps, stepvars, manager, launch, chanvars, error,
                   shutdown_calls, last_call, polled, unyielded_empty>>

\* `if not func` (lines 185-186): getattr gave None, or an attribute that is
\* falsy (self.test_stop_called while False, self.__runned while 0): raise
\* AttributeError.
RaiseAttributeError ==
    /\ \/ Handling("bogus")
       \/ Handling("test_stop_called") /\ ~test_stop_called
       \/ Handling("_PythonTestCase__runned") /\ runned = 0
    /\ Raises("AttributeError")

\* The attribute is truthy and no callable (self.test_steps, a non-empty
\* list; self.test_stop_called once True; self.__runned once it is not 0):
\* raise TypeError (lines 187-188).
\* A method called with kwargs that do not fit its signature: func(**kwargs)
\* raises TypeError before the body runs (line 189).
RaiseTypeError ==
    /\ \/ Handling("test_steps")
       \/ Handling("test_stop_called") /\ test_stop_called
       \/ Handling("_PythonTestCase__runned") /\ runned # 0
       \/ \E name \in Methods : At(name, "misfit")
    /\ Raises("TypeError")

----------------------------------------------------------------------------
\* The runner has published fewer than MaxEvents events and empty mappings.
CanPublish(n) == npublished + nempty + n <= MaxEvents

\* The runner publishes mappings with entries of any names.
PublishAny ==
    \E e \in EventNames : \E kwargs \in Kwargs(e) : \E more \in 0..(MaxEvents - 1) :
        CanPublish(1 + more) /\ Publish(e, kwargs, more)

\* The runner publishes the mapping without an entry.
PublishEmpty ==
    /\ CanPublish(1)
    /\ launch = "ok" /\ manager = "started"
    /\ ~finished
    /\ results' = Append(results, Empty)
    /\ nempty' = nempty + 1
    /\ published' = Untracked
    /\ UNCHANGED <<extvars, python_test_steps, stepvars, manager, launch, finished,
                   npublished, pc, update, raised, error, shutdown_calls, dispatched,
                   last_call, polled, unyielded_empty>>

\* The runner publishes one of the scenarios, event by event.
PublishScenario ==
    \E e \in EventNames : Track(published, e) # Untracked /\ Publish(e, "fits", 0)

Runner == PublishAny \/ PublishEmpty \/ MarkFinished

Bridge ==
    \/ ManagerStart \/ SendCommand \/ UpdateTest \/ IsFinished \/ Sleep \/ Finally
    \/ start \/ stop \/ test_start \/ test_stop \/ step_skipped \/ step_start
    \/ step_success \/ step_failure \/ step_unknown
    \/ CallNextStep \/ CallCreateTestSteps \/ CallInit \/ CallHandleUpdate
    \/ CallHandleUpdateRaises \/ CallSetup
    \/ RaiseAttributeError \/ RaiseTypeError

Next == Runner \/ Bridge

Spec == Init /\ [][Next]_vars

\* One run in which the runner publishes a scenario of section 8: the same
\* bridge, with the handlers the scenarios' events reach.
NextScenario ==
    \/ PublishScenario \/ MarkFinished
    \/ ManagerStart \/ SendCommand \/ UpdateTest \/ IsFinished \/ Sleep \/ Finally
    \/ test_start \/ test_stop \/ step_start \/ step_success

SpecScenario == InitScenario /\ [][NextScenario]_vars

TypeOK ==
    /\ current_test_step_index \in 0..(Len(test_steps) - 1)
    /\ Len(test_steps) = 1 + Len(python_test_steps)
    /\ \A i \in 1..Len(test_steps) :
         test_steps[i].status \in {Pending, Completed, NotApplicable, Failed}
    /\ pc \in {"start", "launch", "poll", "is_finished", "handle", "sleep", "finally", "done"}
    /\ manager \in {"initial", "started", "shutdown"}
    /\ launch \in {"none", "ok", "raised", "nonzero"}
    /\ shutdown_calls \in 0..1
    /\ npublished \in Nat
    /\ nempty \in Nat
    /\ unyielded_empty \in 0..2
    /\ completion_calls \in 0..2

----------------------------------------------------------------------------
\* Dispatch on its own: updates are handed to __handle_update (lines
\* 179-181) of a constructed instance one after the other, whatever their
\* entries, with no channel and no drain loop around it.

\* Bound on the number of entries of the updates handed over.
MaxDispatches == 4

\* __handle_update(update) is called with a mapping of one entry or more,
\* of any names.  (Called with the empty mapping it returns at once and
\* nothing has changed.)
HandleUpdate ==
    /\ pc \in {"start", "sleep"}
    /\ \E e \in EventNames : \E kwargs \in Kwargs(e) :
       \E more \in 0..(MaxDispatches - Len(dispatched) - 1) :
         update' = [name |-> e, id |-> Len(dispatched) + 1, kwargs |-> kwargs, more |-> more]
    /\ pc' = "handle"
    /\ UNCHANGED <<extvars, python_test_steps, stepvars, manager, launch, chanvars, raised,
                   error, shutdown_calls, dispatched, last_call, polled, unyielded_empty>>

NextDispatch ==
    \/ HandleUpdate
    \/ start \/ stop \/ test_start \/ test_stop \/ step_skipped \/ step_start
    \/ step_success \/ step_failure \/ step_unknown
    \/ CallNextStep \/ CallCreateTestSteps \/ CallInit \/ CallHandleUpdate
    \/ CallHandleUpdateRaises \/ CallSetup
    \/ RaiseAttributeError \/ RaiseTypeError

SpecDispatch == InitInstance /\ [][NextDispatch]_vars

----------------------------------------------------------------------------
\* The step list on its own: an instance is constructed from a metadata step
\* list and next_step() is called on it, time after time.

\* Bound on the number of next_step() calls.
MaxAdvances == 6

\* Labels of the metadata steps of this specification.
StepLabels == {"A", "B", "C"}

InitSteps ==
    /\ python_test_steps \in StepLists(StepLabels)
    /\ Constructed
    /\ Elsewhere

\* self.next_step(), called directly.
Advance ==
    /\ advances < MaxAdvances
    /\ NextStep
    /\ advances' = advances + 1
    /\ UNCHANGED <<replaced, loadervars, factoryvars, tworunvars, collectionvars, python_test_steps, test_stop_called, runned, manager, launch, chanvars,
                   pc, update, raised, error, shutdown_calls, dispatched, last_call,
                   polled, unyielded_empty>>

SpecSteps == InitSteps /\ [][Advance]_vars

----------------------------------------------------------------------------
\* _parse_all_sdk_python_tests (sdk_python_tests.py, lines 81-102): the loop
\* over the files, one iteration per step.  parse_python_test returns a
\* test, raises PythonTestParserException, or raises something else.

\* Bound on the number of files.
MaxFiles == 3

ParseOutcomes == {"ok", "PythonTestParserException", "OtherException"}

\* The state of execute and of the instance, which loading does not touch.
execvars == <<python_test_steps, stepvars, manager, launch, chanvars, pc, update, raised,
              error, shutdown_calls, dispatched, last_call, polled, unyielded_empty>>

\* The identifiers the tests of the files carry, named by their rank in the
\* order sort_test_cases sorts by; two files may carry the same one.
Identifiers == {1, 2}

\* One of the two collection functions has been called (lines 105-116,
\* 126-137) and calls _parse_all_sdk_python_tests with the folder's files.
\* suites = _init_test_suites(python_test_version): an empty Automated suite.
InitLoader ==
    /\ python_test_steps = <<>>
    /\ Constructed
    /\ FactoryIdle /\ TwoRunsIdle
    /\ collection_function \in {"sdk", "custom"}
    /\ \E n \in 0..MaxFiles :
         /\ python_test_files \in [1..n -> ParseOutcomes]
         /\ test_ids \in [1..n -> Identifiers]
    /\ test_suites = <<>>
    /\ collection_result = "none"
    /\ file_index = 0
    /\ suite_test_cases = <<>>
    /\ loader_pc = "loop"

\* The file the loop is at.
InLoop == loader_pc = "loop" /\ file_index < Len(python_test_files)

\* The file parses: suites[SuiteType.AUTOMATED].add_test_case(test_case).
\* A test case is named by the position of its file in the list.
ParseAdds ==
    /\ InLoop
    /\ python_test_files[file_index + 1] = "ok"
    /\ suite_test_cases' = Append(suite_test_cases, file_index + 1)
    /\ file_index' = file_index + 1
    /\ UNCHANGED <<execvars, advances, factoryvars, tworunvars, collectionvars, python_test_files, loader_pc>>

\* The parser's exception ending the loop instead of being skipped.
ParseSkips_aborting ==
    /\ InLoop
    /\ python_test_files[file_index + 1] = "PythonTestParserException"
    /\ loader_pc' = "aborted"
    /\ UNCHANGED <<execvars, advances, factoryvars, tworunvars, collectionvars, python_test_files, file_index, suite_test_cases>>

\* except PythonTestParserException: the error is logged and the loop goes
\* on with the next file.
ParseSkips ==
    /\ InLoop
    /\ python_test_files[file_index + 1] = "PythonTestParserException"
    /\ file_index' = file_index + 1
    /\ UNCHANGED <<execvars, advances, factoryvars, tworunvars, collectionvars, python_test_files, suite_test_cases, loader_pc>>

\* Any other exception is not caught and leaves the function.
ParseAborts ==
    /\ InLoop
    /\ python_test_files[file_index + 1] = "OtherException"
    /\ loader_pc' = "aborted"
    /\ UNCHANGED <<execvars, advances, factoryvars, tworunvars, collectionvars, python_test_files, file_index, suite_test_cases>>

\* return list(suites.values())
ReturnSuites ==
    /\ loader_pc = "loop" /\ file_index = Len(python_test_files)
    /\ loader_pc' = "returned"
    /\ UNCHANGED <<execvars, advances, factoryvars, tworunvars, collectionvars, python_test_files, file_index, suite_test_cases>>

\* The test case put into a list sorted by identifier, behind those of the
\* same identifier.
RECURSIVE InsertTestCase(_, _, _)
InsertTestCase(sorted, case, ids) ==
    IF sorted = <<>> THEN <<case>>
    ELSE IF ids[Head(sorted)] <= ids[case]
         THEN <<Head(sorted)>> \o InsertTestCase(Tail(sorted), case, ids)
         ELSE <<case>> \o sorted

\* suite.sort_test_cases(): the test cases sorted by identifier, those of
\* the same identifier staying in the order they had.
RECURSIVE sort_test_cases(_, _)
sort_test_cases(cases, ids) ==
    IF cases = <<>> THEN <<>>
    ELSE InsertTestCase(sort_test_cases(SubSeq(cases, 1, Len(cases) - 1), ids),
                        cases[Len(cases)], ids)

\* for suite in suites (lines 119-121, 139-143), the one Automated suite:
\* it is sorted and added to the collection.
SortAndAddSuite ==
    /\ loader_pc = "returned"
    /\ collection_function = "sdk" \/ suite_test_cases # <<>>
    /\ suite_test_cases' = sort_test_cases(suite_test_cases, test_ids)
    /\ test_suites' = Append(test_suites, suite_test_cases')
    /\ loader_pc' = "suites_added"
    /\ UNCHANGED <<execvars, advances, factoryvars, tworunvars, python_test_files, file_index,
                   collection_function, test_ids, collection_result>>

\* if not suite.test_cases: continue (lines 140-141), in
\* custom_python_test_collection only.
SkipEmptySuite ==
    /\ loader_pc = "returned"
    /\ collection_function = "custom" /\ suite_test_cases = <<>>
    /\ loader_pc' = "suites_added"
    /\ UNCHANGED <<execvars, advances, factoryvars, tworunvars, collectionvars, python_test_files,
                   file_index, suite_test_cases>>

\* return collection (lines 123, 148).
ReturnCollection ==
    /\ loader_pc = "suites_added"
    /\ collection_function = "sdk" \/ test_suites # <<>>
    /\ collection_result' = "collection"
    /\ loader_pc' = "done"
    /\ UNCHANGED <<execvars, advances, factoryvars, tworunvars, python_test_files, file_index,
                   suite_test_cases, collection_function, test_ids, test_suites>>

\* if not collection.test_suites: return None (lines 145-146), in
\* custom_python_test_collection only.
ReturnNone ==
    /\ loader_pc = "suites_added"
    /\ collection_function = "custom" /\ test_suites = <<>>
    /\ collection_result' = "None"
    /\ loader_pc' = "done"
    /\ UNCHANGED <<execvars, advances, factoryvars, tworunvars, python_test_files, file_index,
                   suite_test_cases, collection_function, test_ids, test_suites>>

NextLoader ==
    \/ ParseAdds \/ ParseSkips \/ ParseAborts \/ ReturnSuites
    \/ SortAndAddSuite \/ SkipEmptySuite \/ ReturnCollection \/ ReturnNone

SpecLoader == InitLoader /\ [][NextLoader]_vars

----------------------------------------------------------------------------
\* class_factory (lines 92-130).  A string is a sequence of characters.

\* Bound on the number of characters written before and after the body of
\* a test name.
MaxPad == 2

\* [0-9a-zA-Z]
AlphaNum ==
    {"0", "1", "2", "3", "4", "5", "6", "7", "8", "9",
     "a", "b", "c", "d", "e", "f", "g", "h", "i", "j", "k", "l", "m",
     "n", "o", "p", "q", "r", "s", "t", "u", "v", "w", "x", "y", "z",
     "A", "B", "C", "D", "E", "F", "G", "H", "I", "J", "K", "L", "M",
     "N", "O", "P", "Q", "R", "S", "T", "U", "V", "W", "X", "Y", "Z"}

\* The ASCII characters \s matches: space, \t, \n, \r, \f, and the control
\* characters 0B (vertical tab), 1C, 1D, 1E, 1F, written as themselves.
AsciiWhitespace == {" ", "\t", "\n", "\r", "\f", "", "", "", "", ""}

\* The characters outside ASCII \s matches in a str pattern.  A character
\* outside ASCII is written by the name of its code point.
UnicodeWhitespace ==
    {"U+0085", "U+00A0", "U+1680", "U+2000", "U+2001", "U+2002",
     "U+2003", "U+2004", "U+2005", "U+2006", "U+2007", "U+2008",
     "U+2009", "U+200A", "U+2028", "U+2029", "U+202F", "U+205F",
     "U+3000"}

\* \s
Whitespace == AsciiWhitespace \cup UnicodeWhitespace

\* The characters that end a match of [^\s\]]*
TitleStop == Whitespace \cup {"]"}

\* The end of the longest run of characters outside TitleStop that starts
\* at position k of name (k - 1 when the run is empty).
RECURSIVE TitleEnd(_, _)
TitleEnd(name, k) ==
    IF k > Len(name) \/ name[k] \in TitleStop THEN k - 1 ELSE TitleEnd(name, k + 1)

\* The positions of name where "TC-" starts.
TitleStarts(name) ==
    {i \in 1..(Len(name) - 2) : name[i] = "T" /\ name[i + 1] = "C" /\ name[i + 2] = "-"}

\* __test_identifier: re.search(r"(?P<title>TC-[^\s\]]*)", name), the
\* leftmost match, taken as long as it goes; the name itself without a match.
test_identifier(name) ==
    IF TitleStarts(name) = {}
    THEN name
    ELSE LET i == CHOOSE m \in TitleStarts(name) : \A o \in TitleStarts(name) : m <= o
         IN SubSeq(name, i, TitleEnd(name, i + 3))

\* The end of the run of characters outside AlphaNum that starts at k.
RECURSIVE RunEnd(_, _)
RunEnd(identifier, k) ==
    IF k > Len(identifier) \/ identifier[k] \in AlphaNum
    THEN k - 1
    ELSE RunEnd(identifier, k + 1)

\* re.sub, from position k on: a match of [^0-9a-zA-Z]+ at k is replaced by
\* "_" and the scan goes on behind it; any other character is copied.
RECURSIVE SubFrom(_, _)
SubFrom(identifier, k) ==
    IF k > Len(identifier) THEN <<>>
    ELSE IF identifier[k] \in AlphaNum
         THEN <<identifier[k]>> \o SubFrom(identifier, k + 1)
         ELSE <<"_">> \o SubFrom(identifier, RunEnd(identifier, k) + 1)

\* re.sub with the pattern [^0-9a-zA-Z], without the +: each character apart.
class_name_each_character(identifier) ==
    [i \in 1..Len(identifier) |->
        IF identifier[i] \in AlphaNum THEN identifier[i] ELSE "_"]

\* __class_name: re.sub("[^0-9a-zA-Z]+", "_", identifier)
class_name(identifier) == SubFrom(identifier, 1)

\* All sequences over a set of characters, up to MaxPad long.
Pads(chars) == UNION {[1..n -> chars] : n \in 0..MaxPad}

\* Canonical test ids, TC-<area>-<number>.
CanonicalIds ==
    {<<"T", "C", "-", "A", "B", "C", "-", "1", ".", "2">>,
     <<"T", "C", "-", "A", "-", "1">>}

\* Bodies of names that hold no test id.
PlainBodies == {<<>>, <<"F", "o", "o">>, <<"T", "C">>}

\* Characters written before and after the body.  None of those written
\* after it can continue a test id.
PadBefore == {"[", " ", "x"}
PadAfter == {"]", " ", ")", "", "U+00A0"}

\* class_factory is called with a test whose name is a body, a canonical id
\* or not, with characters before and after it.
InitFactory ==
    /\ python_test_steps = <<>>
    /\ Constructed
    /\ LoaderIdle /\ TwoRunsIdle /\ CollectionIdle
    /\ \E body \in CanonicalIds \cup PlainBodies :
       \E before \in Pads(PadBefore) :
       \E after \in Pads(PadAfter) :
          /\ test_name = before \o body \o after
          /\ token = IF body \in CanonicalIds THEN body ELSE <<>>
    /\ metadata = [public_id |-> <<>>, title |-> <<>>]
    /\ chip_tool_test_identifier = <<>>
    /\ factory_pc = "called"

\* class_factory: the class is made of the identifier and the class name.
ClassFactory ==
    /\ factory_pc = "called"
    /\ LET identifier == test_identifier(test_name)
       IN /\ metadata' = [public_id |-> identifier, title |-> identifier]
          /\ chip_tool_test_identifier' = class_name(identifier)
    /\ factory_pc' = "made"
    /\ UNCHANGED <<execvars, advances, loadervars, tworunvars, collectionvars, test_name, token>>

SpecFactory == InitFactory /\ [][ClassFactory]_vars

----------------------------------------------------------------------------
\* Two runs of execute interleaved in one event loop.  Each run makes its own
\* BaseManager on the one address ("0.0.0.0", 50000) (line 143); the
\* operating system lets one service at a time bind it.  A coroutine gives
\* up the event loop at `await sleep` (line 175) and when it ends, nowhere
\* else.  The events carry the run whose runner published them; what a
\* popped update holds (no entry, or which names with which kwargs) is drawn
\* when the loop body looks at it.  The two calls are made on one instance,
\* or each on an instance of its own; the methods act on that instance.

\* Bound on the number of events one runner publishes.
MaxRunEvents == 2

\* Bound on the number of entries of an update of the two runs.
MaxEntries == 2

\* The instance's execute and the rest of the module's state stay put: the
\* instance followed through one run, above, is none of the two runs'.
restvars == <<execvars, advances, loadervars, factoryvars, collectionvars>>

\* An instance as constructed (lines 47-51).
NewInstance ==
    [test_steps |-> create_test_steps(python_test_steps, 0),
     current_test_step_index |-> 0,
     test_stop_called |-> FALSE,
     runned |-> 0]

\* self.next_step() on the instance self.
Advanced(self) ==
    [self EXCEPT
        !.test_steps = next_step_steps(self.test_steps, self.current_test_step_index),
        !.current_test_step_index =
            next_step_index(self.test_steps, self.current_test_step_index)]

\* self.current_test_step.mark_as_completed() on the instance self.
CurrentCompleted(self) ==
    [self EXCEPT !.test_steps[self.current_test_step_index + 1] = mark_as_completed(@)]

\* self.current_test_step.mark_as_not_applicable(...) on the instance self.
CurrentNotApplicable(self) ==
    [self EXCEPT !.test_steps[self.current_test_step_index + 1] = mark_as_not_applicable(@)]

\* The instance self after the method `name` was called on it and returned
\* (lines 47-85, 132-136, 179-181, 191-195), as start, stop, ... , CallSetup
\* above have it.
Called(self, name) ==
    CASE name \in {"start", "step_start", "setup", "_PythonTestCase__handle_update"} ->
            self
      [] name = "stop" ->
            IF self.test_stop_called THEN self ELSE CurrentCompleted(self)
      [] name \in {"test_start", "step_success", "step_failure", "next_step"} ->
            Advanced(self)
      [] name = "test_stop" ->
            CurrentCompleted([self EXCEPT !.test_stop_called = TRUE])
      [] name = "step_skipped" ->
            Advanced(CurrentNotApplicable(self))
      [] name = "step_unknown" ->
            [self EXCEPT !.runned = @ + 1]
      [] name = "create_test_steps" ->
            [self EXCEPT !.test_steps =
                create_test_steps(python_test_steps, self.test_steps[1].made + 1)]
      [] name = "__init__" ->
            [NewInstance EXCEPT !.test_steps =
                create_test_steps(python_test_steps, self.test_steps[1].made + 1)]

\* What __call_function_from_name raises for the entry {name: kwargs} on the
\* instance self (lines 183-189), NoError when the call is made and returns.
CallRaises(self, name, kwargs) ==
    IF name \in Methods
    THEN CASE kwargs = "fits" -> NoError
           [] kwargs = "misfit" -> "TypeError"
           [] kwargs = "no_mapping" -> "AttributeError"
    ELSE IF name = "test_steps" THEN "TypeError"
    ELSE IF name = "test_stop_called" /\ self.test_stop_called THEN "TypeError"
    ELSE IF name = "_PythonTestCase__runned" /\ self.runned # 0 THEN "TypeError"
    ELSE "AttributeError"

InitTwoRuns ==
    /\ python_test_steps = <<>>
    /\ Constructed
    /\ LoaderIdle /\ FactoryIdle /\ CollectionIdle
    /\ \E shared \in BOOLEAN :
         runs = [r \in Runs |-> NewRun("start", IF shared THEN 1 ELSE r)]
    /\ instances = [i \in Runs |-> NewInstance]
    /\ address_owner = 0
    /\ running = 0

\* Run r's coroutine can take its next step: it holds the event loop, or
\* nobody does and the loop picks it.
Scheduled(r) == running \in {0, r}

\* manager.start() of run r (line 144): the service comes up and binds the
\* address if no other service holds it, and start() raises otherwise.  As in
\* ManagerStart it may also fail for a reason of its own.
RunManagerStart(r) ==
    /\ Scheduled(r) /\ runs[r].pc = "start"
    /\ \E ok \in BOOLEAN :
         IF address_owner # 0
         THEN /\ runs' = [runs EXCEPT ![r].pc = "finally", ![r].raised = "AddressInUse"]
              /\ address_owner' = address_owner
         ELSE IF ok
         THEN /\ runs' = [runs EXCEPT ![r].pc = "launch", ![r].manager = "started"]
              /\ address_owner' = r
         ELSE /\ runs' = [runs EXCEPT ![r].pc = "finally", ![r].raised = "StartError"]
              /\ address_owner' = address_owner
    /\ running' = r
    /\ UNCHANGED <<restvars, instances>>

\* send_command of run r (lines 161-166), as SendCommand.
RunSendCommand(r) ==
    /\ Scheduled(r) /\ runs[r].pc = "launch"
    /\ \E outcome \in {"ok", "raised", "nonzero"} :
         runs' = [runs EXCEPT ![r].launch = outcome,
                              ![r].pc = IF outcome = "raised" THEN "finally" ELSE "poll",
                              ![r].raised = IF outcome = "raised" THEN "LaunchError" ELSE @]
    /\ running' = r
    /\ UNCHANGED <<restvars, instances, address_owner>>

\* The runner launched by run r connects to the address: to the service
\* that is bound to it at that moment.
RunnerConnect(r) ==
    /\ runs[r].launch = "ok" /\ runs[r].connected = 0
    /\ address_owner # 0
    /\ runs' = [runs EXCEPT ![r].connected = address_owner]
    /\ UNCHANGED <<restvars, instances, address_owner, running>>

\* The runner of run r publishes an event on the service it is connected to.
RunnerPublish(r) ==
    /\ runs[r].connected # 0 /\ ~runs[r].marked
    /\ runs[r].npublished < MaxRunEvents
    /\ LET c == runs[r].connected
           e == [run |-> r, id |-> runs[r].npublished + 1]
       IN /\ runs[c].manager = "started"
          /\ runs' = [x \in Runs |->
                        [runs[x] EXCEPT
                            !.results = IF x = c THEN Append(@, e) ELSE @,
                            !.npublished = IF x = r THEN @ + 1 ELSE @]]
    /\ UNCHANGED <<restvars, instances, address_owner, running>>

\* The runner of run r marks the service it is connected to as finished.
RunnerMarkFinished(r) ==
    /\ runs[r].connected # 0 /\ ~runs[r].marked
    /\ LET c == runs[r].connected
       IN /\ runs[c].manager = "started"
          /\ runs' = [x \in Runs |->
                        [runs[x] EXCEPT
                            !.finished = IF x = c THEN TRUE ELSE @,
                            !.marked = IF x = r THEN TRUE ELSE @]]
    /\ UNCHANGED <<restvars, instances, address_owner, running>>

\* update_test() of run r (line 168), as UpdateTest: a popped update holds
\* an entry or more and goes to __handle_update, or it is the empty mapping
\* and the loop goes back to its condition (lines 171-172).
RunUpdateTest(r) ==
    /\ Scheduled(r) /\ runs[r].pc = "poll"
    /\ IF runs[r].results # <<>>
       THEN \E empty \in BOOLEAN :
              runs' = [runs EXCEPT ![r].update = Head(runs[r].results),
                                   ![r].results = Tail(@),
                                   ![r].received = Append(@, Head(runs[r].results)),
                                   ![r].pc = IF empty THEN "poll" ELSE "handle"]
       ELSE runs' = [runs EXCEPT ![r].update = None, ![r].pc = "is_finished"]
    /\ running' = r
    /\ UNCHANGED <<restvars, instances, address_owner>>

\* is_finished() of run r (lines 169-172), as IsFinished.
RunIsFinished(r) ==
    /\ Scheduled(r) /\ runs[r].pc = "is_finished"
    /\ runs' = [runs EXCEPT ![r].pc = IF runs[r].finished THEN "finally" ELSE "poll"]
    /\ running' = r
    /\ UNCHANGED <<restvars, instances, address_owner>>

\* __handle_update(update) of run r (line 174), at an entry of the update:
\* __call_function_from_name (lines 183-189) raises, and control goes to the
\* finally clause with no sleep and the instance as it was; or the method is
\* called on the instance of the run and returns, and the loop of line 180
\* goes on with the next entry or, after the last one, on to the sleep.
RunHandleUpdate(r) ==
    /\ Scheduled(r) /\ runs[r].pc = "handle"
    /\ \E e \in EventNames : \E kwargs \in Kwargs(e) : \E last \in BOOLEAN :
         LET i == runs[r].instance
             exc == CallRaises(instances[i], e, kwargs)
         IN /\ last \/ runs[r].calls + 1 < MaxEntries
            /\ instances' = IF exc = NoError
                            THEN [instances EXCEPT ![i] = Called(@, e)]
                            ELSE instances
            /\ runs' = IF exc # NoError
                       THEN [runs EXCEPT ![r].update = None, ![r].calls = 0,
                                         ![r].pc = "finally", ![r].raised = exc]
                       ELSE IF last
                       THEN [runs EXCEPT ![r].update = None, ![r].calls = 0,
                                         ![r].pc = "sleep"]
                       ELSE [runs EXCEPT ![r].calls = @ + 1]
    /\ running' = r
    /\ UNCHANGED <<restvars, address_owner>>

\* await sleep(0.001) of run r (line 175): the event loop is free.
RunSleep(r) ==
    /\ Scheduled(r) /\ runs[r].pc = "sleep"
    /\ runs' = [runs EXCEPT ![r].pc = "poll"]
    /\ running' = 0
    /\ UNCHANGED <<restvars, instances, address_owner>>

\* finally: manager.shutdown() of run r (lines 176-177), as Finally; a
\* service that goes down frees the address.  execute ends.
RunFinally(r) ==
    /\ Scheduled(r) /\ runs[r].pc = "finally"
    /\ IF runs[r].manager = "started"
       THEN /\ runs' = [runs EXCEPT ![r].pc = "done", ![r].manager = "shutdown",
                                    ![r].error = runs[r].raised]
            /\ address_owner' = 0
       ELSE /\ runs' = [runs EXCEPT ![r].pc = "done", ![r].error = "AttributeError"]
            /\ address_owner' = address_owner
    /\ running' = 0
    /\ UNCHANGED <<restvars, instances>>

NextTwoRuns ==
    \/ \E r \in Runs : RunManagerStart(r)
    \/ \E r \in Runs : RunSendCommand(r)
    \/ \E r \in Runs : RunnerConnect(r)
    \/ \E r \in Runs : RunnerPublish(r)
    \/ \E r \in Runs : RunnerMarkFinished(r)
    \/ \E r \in Runs : RunUpdateTest(r)
    \/ \E r \in Runs : RunIsFinished(r)
    \/ \E r \in Runs : RunHandleUpdate(r)
    \/ \E r \in Runs : RunSleep(r)
    \/ \E r \in Runs : RunFinally(r)

SpecTwoRuns == InitTwoRuns /\ [][NextTwoRuns]_vars

----------------------------------------------------------------------------
\* Claims

\* C1: on every exit path of execute (normal completion, send_command
\* raising, manager.start() failing, an exception while draining or
\* dispatching) the Event Channel service is shut down exactly once and the
\* exception that leaves execute is the one raised in the try block.
C1_TeardownExactlyOnce ==
    /\ shutdown_calls <= 1
    /\ pc = "done" => (shutdown_calls = 1 /\ error = raised)

\* C2: every event the runner published is dispatched exactly once and in
\* publication order: the dispatched ids are always the first published
\* ids, in order, and a run that ends without error has dispatched them all.
C2_ExactlyOnceInOrder ==
    /\ Len(dispatched) <= npublished
    /\ \A i \in 1..Len(dispatched) : dispatched[i] = i
    /\ (pc = "done" /\ error = NoError) => Len(dispatched) = npublished

\* C3: a popped event whose name is outside the vocabulary ends the run with
\* an error: dispatch raises, control goes to the teardown, and the event
\* changes nothing of the step state.  (dispatched' # dispatched: the step
\* is the one that deals with the event.)
C3_UnknownNameIsError ==
    [][(pc = "handle" /\ update.name \notin Vocabulary /\ dispatched' # dispatched)
          => (pc' = "finally" /\ raised' # NoError /\ UNCHANGED stepvars)]_vars

\* C4: dispatch only ever invokes a handler of the closed event table, never
\* another method of the instance.
C4_ClosedTable == last_call \in Vocabulary \cup {"none"}

\* C5: when execute returns without error after a sequence of events ending
\* in test_stop, with the channel finished, no step is left Pending.
C5_NoPendingAtEnd ==
    (pc = "done" /\ error = NoError /\ finished /\ last_call = "test_stop")
        => \A i \in 1..Len(test_steps) : test_steps[i].status # Pending

\* C6: after a failed launch (send_command raises, or reports that the
\* runner did not start) the channel is never polled and the run ends with
\* an error.
C6_NoPollAfterFailedLaunch ==
    launch \in {"raised", "nonzero"}
        => (~polled /\ (pc = "done" => error # NoError))

\* A run that completed without error on a step list with at least three
\* real steps, every event of the published scenario dispatched.
ScenarioDrained(scenario) ==
    /\ pc = "done" /\ error = NoError
    /\ Len(python_test_steps) >= 3
    /\ published = scenario
    /\ Len(dispatched) = Len(scenario)

\* C7: testStart, testSuccess, testSuccess, runStop (step_start,
\* step_success, step_success, test_stop) published and drained move the
\* cursor forward exactly three times.  The cursor starts at 0 and every
\* move adds one, so the index counts the moves.
C7_ThreeMoves ==
    ScenarioDrained(ScenarioStepStart) => current_test_step_index = 3

\* The step at position i of the list is the same object after the step.
SameStep(i) == test_steps'[i].made = test_steps[i].made

\* No step that is NotApplicable changes status: one in the list stays in it
\* as it is, or the list is replaced and put aside with the step as it is;
\* and the lists put aside stay as they are.
SkippedStaySkipped ==
    /\ \A i \in 1..Len(test_steps) :
         test_steps[i].status = NotApplicable
            => IF SameStep(i)
               THEN test_steps'[i].status = NotApplicable
               ELSE replaced' = Append(replaced, test_steps)
    /\ IsPrefix(replaced, replaced')

\* C8 as stated: step_skipped marks the current step NotApplicable and moves
\* the cursor forward by one, and a NotApplicable step never changes status.
C8_SkipAlwaysAdvances ==
    [][/\ (Handling("step_skipped") /\ dispatched' # dispatched)
            => /\ test_steps'[current_test_step_index + 1].status = NotApplicable
               /\ current_test_step_index' = current_test_step_index + 1
       /\ SkippedStaySkipped]_vars

\* C8 as amended: step_skipped marks the current step NotApplicable and
\* moves the cursor forward by one when a next step exists (on the last step
\* the cursor stays); a NotApplicable step never changes status afterwards,
\* in that handler or through any later event, of whatever name, the events
\* that replace the step list included.
C8_SkippedStaysNotApplicable ==
    [][/\ (Handling("step_skipped") /\ dispatched' # dispatched)
            => /\ test_steps'[current_test_step_index + 1].status = NotApplicable
               /\ SameStep(current_test_step_index + 1)
               /\ current_test_step_index' =
                      IF current_test_step_index + 1 < Len(test_steps)
                      THEN current_test_step_index + 1
                      ELSE current_test_step_index
       /\ SkippedStaySkipped]_vars

\* A skipped step is in a list that was replaced, and a step skipped since
\* is still current (it was the last) when test_stop completes the current
\* step.
C8_Witness ==
    /\ last_call = "test_stop"
    /\ current_test_step.status = NotApplicable
    /\ \E k \in 1..Len(replaced) : \E i \in 1..Len(replaced[k]) :
         replaced[k][i].status = NotApplicable

\* C9: once test_stop has been dispatched the loop ends whatever the
\* channel's finished flag says: an is_finished() check made after test_stop
\* never sends the loop back to polling.
C9_StopEndsLoop ==
    [][(test_stop_called /\ pc = "is_finished") => pc' # "poll"]_vars

\* C10: an empty poll is followed by a suspension before the next poll (no
\* two empty polls without a yield between them), and the loop ends exactly
\* when a poll found no event and the publisher has signalled finished.
C10_YieldBetweenEmptyPolls ==
    /\ unyielded_empty <= 1
    /\ (pc = "finally" /\ raised = NoError) => (finished /\ update = None)

\* The cursor is exhausted: it is on the last step and no step is Pending.
Exhausted ==
    /\ current_test_step_index = Len(test_steps) - 1
    /\ \A i \in 1..Len(test_steps) : test_steps[i].status # Pending

\* C11: the step list is the synthetic start step followed by one step per
\* metadata step, in the metadata's order and with the same labels; after
\* construction the current step is the start step; after as many advances
\* as the list has steps (4 for [A, B, C]) the cursor is exhausted, and
\* every further advance changes neither the cursor nor any step status.
C11_StepListAndExhaustion ==
    /\ Len(test_steps) = 1 + Len(python_test_steps)
    /\ test_steps[1].label = "Start Python test"
    /\ \A i \in 1..Len(python_test_steps) : test_steps[i + 1].label = python_test_steps[i]
    /\ advances = 0 => (current_test_step_index = 0 /\ current_test_step = test_steps[1])
    /\ advances < Len(test_steps) => current_test_step_index = advances \/ Exhausted
    /\ advances >= Len(test_steps)
          => /\ Exhausted
             /\ \A i \in 1..Len(test_steps) : test_steps[i].status = Completed

\* [A, B, C] after a fifth advance: still on C, every step Completed.
C11_Witness ==
    /\ python_test_steps = <<"A", "B", "C">>
    /\ advances = 5
    /\ current_test_step_index = 3
    /\ test_steps[4] = [label |-> "C", status |-> Completed, made |-> 0]

\* The positions of the files that parse, in order.
RECURSIVE ParsedFiles(_, _)
ParsedFiles(files, k) ==
    IF k = 0 THEN <<>>
    ELSE IF files[k] = "ok" THEN Append(ParsedFiles(files, k - 1), k)
         ELSE ParsedFiles(files, k - 1)

\* C12: files failing with PythonTestParserException do not abort loading:
\* the loop is only ever left by an exception of another kind, and the
\* returned Automated suite holds exactly one test case for each file that
\* parsed, before and after a failing file alike, and none for the others;
\* the collection function sorts these same test cases by identifier and
\* adds the suite to the collection (an empty suite of the custom folder is
\* left out, and None returned).
C12_ParseErrorsSkipped ==
    /\ loader_pc = "aborted" => python_test_files[file_index + 1] = "OtherException"
    /\ loader_pc \in {"loop", "returned"}
          => suite_test_cases = ParsedFiles(python_test_files, file_index)
    /\ loader_pc \in {"returned", "suites_added", "done"} => file_index = Len(python_test_files)
    /\ loader_pc \in {"suites_added", "done"}
          => LET parsed == ParsedFiles(python_test_files, file_index)
             IN /\ Len(suite_test_cases) = Len(parsed)
                /\ {suite_test_cases[i] : i \in 1..Len(suite_test_cases)}
                      = {parsed[i] : i \in 1..Len(parsed)}
                /\ \A i \in 1..(Len(suite_test_cases) - 1) :
                      test_ids[suite_test_cases[i]] <= test_ids[suite_test_cases[i + 1]]
                /\ test_suites \in {<<>>, <<suite_test_cases>>}
                /\ test_suites = <<>> => (collection_function = "custom" /\ parsed = <<>>)
    /\ collection_result = "None" => (collection_function = "custom" /\ suite_test_cases = <<>>)

\* A failing file between two files that parse: both are in the suite of
\* the collection returned, sorted by identifier.
C12_Witness ==
    /\ loader_pc = "done" /\ collection_result = "collection"
    /\ python_test_files = <<"ok", "PythonTestParserException", "ok">>
    /\ test_ids = <<2, 1, 1>>
    /\ test_suites = <<<<3, 1>>>>

\* C13: for a name holding a canonical test id, bracketed or not, the
\* identifier (public_id and title) is exactly that id, with no bracket or
\* other character around it; for a name without one the identifier is the
\* name unchanged, the empty name giving the empty identifier.
C13_IdentifierIsToken ==
    factory_pc = "made"
        => /\ metadata.title = metadata.public_id
           /\ metadata.public_id = IF token # <<>> THEN token ELSE test_name

\* The identifier with every character outside AlphaNum that follows
\* another one dropped, and the remaining ones written as "_".
Collapsed(identifier) ==
    LET kept == SelectSeq([i \in 1..Len(identifier) |-> i],
                          LAMBDA i : \/ identifier[i] \in AlphaNum
                                     \/ i = 1
                                     \/ identifier[i - 1] \in AlphaNum)
    IN [k \in 1..Len(kept) |->
           IF identifier[kept[k]] \in AlphaNum THEN identifier[kept[k]] ELSE "_"]

\* C14: the class name is the identifier with every maximal run of
\* characters that are no ASCII letters or digits replaced by one "_" and
\* every letter and digit kept in place: it holds letters, digits and "_"
\* only, never two "_" side by side, and TC-ABC-1.2 gives TC_ABC_1_2.
C14_ClassNameCollapsesRuns ==
    factory_pc = "made"
        => LET identifier == metadata.public_id
               name == chip_tool_test_identifier
           IN /\ name = Collapsed(identifier)
              /\ \A i \in 1..Len(name) : name[i] \in AlphaNum \cup {"_"}
              /\ \A i \in 1..(Len(name) - 1) : ~(name[i] = "_" /\ name[i + 1] = "_")
              /\ identifier = <<"T", "C", "-", "A", "B", "C", "-", "1", ".", "2">>
                    => name = <<"T", "C", "_", "A", "B", "C", "_", "1", "_", "2">>

\* An identifier ending in a run of two characters that are no letters or
\* digits: the run has become one "_".
C14_Witness ==
    /\ factory_pc = "made"
    /\ metadata.public_id = <<"T", "C", "-", "A", "-", "1", ")", ")">>
    /\ chip_tool_test_identifier = <<"T", "C", "_", "A", "_", "1", "_">>

\* C15: whatever events are dispatched, the step cursor never decreases,
\* moves by at most one per event, stays within the step list, and on the
\* last step stays where it is; the list keeps its length.  (An update
\* named __init__ takes the cursor back to 0.)
C15_CursorMonotoneInBounds ==
    [][/\ current_test_step_index' \in {current_test_step_index, current_test_step_index + 1}
       /\ current_test_step_index' \in 0..(Len(test_steps') - 1)
       /\ Len(test_steps') = Len(test_steps)
       /\ current_test_step_index = Len(test_steps) - 1
             => current_test_step_index' = current_test_step_index]_vars

\* The order of a run so far is one the claim allows.
ChannelOrder ==
    /\ launch # "none" => manager \in {"started", "shutdown"}
    /\ polled => launch \in {"ok", "nonzero"}
    /\ manager = "shutdown" => (pc = "done" /\ shutdown_calls = 1)
    /\ pc \in {"launch", "poll", "is_finished", "handle", "sleep"} => manager = "started"

\* C16: in every run the order is channel start, then send_command, then
\* polling, then shutdown: the runner is launched and the channel is polled
\* only while the service is up, and the service is shut down only from the
\* finally clause, after the drain loop has been left.
C16_StartLaunchPollShutdown ==
    [][/\ ChannelOrder /\ ChannelOrder'
       /\ launch' # launch => (manager = "started" /\ manager' = "started" /\ ~polled)
       /\ (polled' # polled \/ results' # results) => (manager = "started" /\ manager' = "started")
       /\ manager' # manager
             => \/ manager = "initial" /\ manager' = "started" /\ launch = "none"
                \/ manager = "started" /\ manager' = "shutdown" /\ pc = "finally"]_vars

\* A whole run: started, launched, an event polled and dispatched, shut down.
C16_Witness ==
    /\ pc = "done" /\ manager = "shutdown"
    /\ launch = "ok" /\ polled
    /\ Len(dispatched) >= 1

\* The effect of an advancing outcome event on the step state: the current
\* step Completed if it was Pending, the cursor on the next step if any.
OutcomeEffect ==
    /\ test_steps' = [test_steps EXCEPT ![current_test_step_index + 1].status =
                                              IF @ = Pending THEN Completed ELSE @]
    /\ current_test_step_index' =
           IF current_test_step_index + 1 < Len(test_steps)
           THEN current_test_step_index + 1
           ELSE current_test_step_index
    /\ UNCHANGED <<test_stop_called, runned>>

\* C17: from any state, handling testSuccess (step_success) and handling
\* testFailure (step_failure) have one and the same effect on the step
\* state: the cursor moves by one when a next step exists, the statuses
\* come out the same, and no step is marked Failed.
C17_SuccessAndFailureAlike ==
    [][/\ (Handling("step_success") /\ dispatched' # dispatched) => OutcomeEffect
       /\ (Handling("step_failure") /\ dispatched' # dispatched) => OutcomeEffect
       /\ \A i \in 1..Len(test_steps) :
            test_steps'[i].status = Failed => test_steps[i].status = Failed]_vars

\* step_failure was the first event handled: the start step is Completed and
\* the cursor is on the step after it.
C17_Witness ==
    /\ last_call = "step_failure" /\ Len(dispatched) = 1
    /\ current_test_step_index = 1
    /\ test_steps[1].status = Completed

\* C18: handling testUnknown (step_unknown) adds one to the instance's
\* counter and changes neither the step list, nor a step status, nor the
\* cursor, nor the run-finalized flag.
C18_UnknownOnlyCounts ==
    [][(Handling("step_unknown") /\ dispatched' # dispatched)
          => /\ runned' = runned + 1
             /\ UNCHANGED <<test_steps, current_test_step_index, test_stop_called>>]_vars

\* Two step_unknown events handled, after the cursor had moved.
C18_Witness ==
    /\ last_call = "step_unknown" /\ runned = 2
    /\ current_test_step_index = 1

\* C19: the finalized flag (test_stop_called) is false on construction,
\* is true once test_stop has been handled and never returns to false, and
\* whatever stop and test_stop events are handled, at most one of them
\* makes the completion call on the current step.
C19_OneFinalCompletion ==
    [][/\ pc = "start" => ~test_stop_called
       /\ (Handling("test_stop") /\ dispatched' # dispatched) => test_stop_called'
       /\ test_stop_called => test_stop_called'
       /\ completion_calls <= 1 /\ completion_calls' <= 1]_vars

\* C20: with two runs interleaved, at most one run's service is bound to
\* the address at any time; no run is handed an event of the other run's
\* runner and no runner's events go to the other run; the runs are
\* serialized, so that no run is refused the address because the other holds
\* it; and a run that could not bind leaves the other's channel as it is and
\* ends with its teardown completed, the exception leaving execute being
\* the one raised in the try block.
C20_RunsSerialized ==
    /\ Cardinality({r \in Runs : runs[r].manager = "started"}) <= 1
    /\ \A r \in Runs :
         /\ runs[r].connected \in {0, r}
         /\ \A i \in 1..Len(runs[r].results) : runs[r].results[i].run = r
         /\ \A i \in 1..Len(runs[r].received) : runs[r].received[i] = [run |-> r, id |-> i]
         /\ runs[r].raised # "AddressInUse"
         /\ (runs[r].pc = "done" /\ runs[r].raised = "AddressInUse")
                => runs[r].error = runs[r].raised

====
